---- MODULE Spec2Model ----
(***************************************************************************)
(* The boxing application: the boxers table and the functions of           *)
(* boxers_model.py that read and write it, and the RingModel of            *)
(* ring_model.py.  One action per public operation; every action records   *)
(* in `last` the call that was made, the exception it raised ("" when it   *)
(* returned) and whether it opened a database connection.                  *)
(***************************************************************************)
EXTENDS Integers, Sequences, FiniteSets, TLC

VARIABLES
    boxers,   \* the boxers table: id -> row
    nextId,   \* the id the table gives to the next inserted row
    ring,     \* RingModel.ring, a list of objects
    last,     \* the last call: operation, arguments, exception, return value
    faulty,   \* whether the persistence service may raise sqlite3.Error
    callers   \* per thread sharing the RingModel: where it is in enter_ring

vars == <<boxers, nextId, ring, last, faulty, callers>>

(***************************************************************************)
(* Bounds of the model.                                                    *)
(***************************************************************************)
MaxBoxers == 2      \* rows ever inserted
MaxFights == 2      \* value at which the fights counter stops growing
MaxTriedWeight == 215   \* greatest weight get_weight_class is tried on
NumCallers == 2     \* threads that share the RingModel

(***************************************************************************)
(* Inputs the operations are called with.                                  *)
(***************************************************************************)
Names == {"Al", "Bob"}
NameLen(n) ==
    IF n = "Al" THEN 2 ELSE IF n = "Bob" THEN 3 ELSE IF n = "Mike Tyson" THEN 10 ELSE 0
Weights == {124, 125}
Heights == {0, 70}
Reaches == {0, 710}             \* reach in tenths: 710 is 71.0
Ages == {17, 18, 41}
AllAttributes == Weights \X Heights \X Reaches \X Ages
SomeAttributes == {<<124, 70, 710, 18>>, <<125, 70, 710, 18>>}
Results == {"win", "loss", "draw"}
SortKeys == {"wins", "win_pct", "losses"}
Draws == {0, 500, 999, 1300}    \* get_random() in thousandths: 1300 is 1.3
Ids == 1..(MaxBoxers + 1)
Threads == 1..NumCallers
TriedWeights == {-10, 0} \cup 100..MaxTriedWeight

(***************************************************************************)
(* Exceptions, by the message the source raises them with.                 *)
(***************************************************************************)
NoError == ""
ErrWeight == "ValueError: Invalid weight. Must be at least 125."
ErrHeight == "ValueError: Invalid height. Must be greater than 0."
ErrReach == "ValueError: Invalid reach. Must be greater than 0."
ErrAge == "ValueError: Invalid age. Must be between 18 and 40."
ErrExists == "ValueError: Boxer with name already exists"
ErrNotFound == "ValueError: Boxer with ID not found."
ErrResult == "ValueError: Invalid result. Expected 'win' or 'loss'"
ErrWeightClass == "ValueError: Invalid weight. Weight must be at least 125."
ErrTwoBoxers == "ValueError: There must be two boxers to start a fight."
ErrType == "TypeError: Invalid type: Expected 'Boxer'"
ErrFull == "ValueError: Ring is full, cannot add more boxers."
ErrUnpack == "ValueError: values to unpack (expected 2)"
ErrAttribute == "AttributeError: 'Boxer' object has no attribute"
ErrDatabase == "sqlite3.Error"
ErrSortBy == "ValueError: Invalid sort_by parameter"

None == "None"

(***************************************************************************)
(* boxers_model.py                                                         *)
(***************************************************************************)

\* A get_weight_class whose heavyweight boundary is exclusive.
get_weight_class_exclusive(weight) ==
    IF weight > 203 THEN [err |-> NoError, val |-> "HEAVYWEIGHT"]
    ELSE IF weight >= 166 THEN [err |-> NoError, val |-> "MIDDLEWEIGHT"]
    ELSE IF weight >= 133 THEN [err |-> NoError, val |-> "LIGHTWEIGHT"]
    ELSE IF weight >= 125 THEN [err |-> NoError, val |-> "FEATHERWEIGHT"]
    ELSE [err |-> ErrWeightClass, val |-> None]

\* get_weight_class: the class of a weight, or the ValueError below 125.
get_weight_class(weight) ==
    IF weight >= 203 THEN [err |-> NoError, val |-> "HEAVYWEIGHT"]
    ELSE IF weight >= 166 THEN [err |-> NoError, val |-> "MIDDLEWEIGHT"]
    ELSE IF weight >= 133 THEN [err |-> NoError, val |-> "LIGHTWEIGHT"]
    ELSE IF weight >= 125 THEN [err |-> NoError, val |-> "FEATHERWEIGHT"]
    ELSE [err |-> ErrWeightClass, val |-> None]

\* The Boxer dataclass: its six constructor fields and the weight_class that
\* __post_init__ derives.  cls is the object's type, not an attribute.
Boxer(id, name, weight, height, reach, age) ==
    [cls |-> "Boxer", id |-> id, name |-> name, weight |-> weight,
     height |-> height, reach |-> reach, age |-> age,
     weight_class |-> get_weight_class(weight).val]

\* dataclasses.asdict(boxer): the same entries in a dict, which is no Boxer.
asdict(b) == [b EXCEPT !.cls = "dict"]

\* The Boxers get_fighting_skill is tried on.
TriedBoxers ==
    {Boxer(1, name, weight, 178, reach, age) :
        name \in {"Al", "Mike Tyson"}, weight \in {125, 220}, reach \in {705, 710},
        age \in {18, 24, 25, 30, 35, 36, 40}}

\* isinstance(obj, Boxer)
IsBoxer(obj) == obj.cls = "Boxer"

\* Attribute lookup on an object: the attributes are its fields.
HasAttr(obj, attr) == attr \in (DOMAIN obj \ {"cls"})

\* The boxers table's defaults for the columns an INSERT does not give.
DefaultFights == 0
DefaultWins == 0

\* The row the INSERT of create_boxer creates from its five columns.
NewRow(name, weight, height, reach, age) ==
    [name |-> name, weight |-> weight, height |-> height, reach |-> reach,
     age |-> age, fights |-> DefaultFights, wins |-> DefaultWins]

\* A name query that matches no row.
NameNeverExists(db, name) == FALSE

\* SELECT 1 FROM boxers WHERE name = ?
NameExists(db, name) == \E i \in DOMAIN db : db[i].name = name

\* SELECT id FROM boxers WHERE id = ?
IdExists(db, id) == id \in DOMAIN db

\* A validation that checks the age before the other attributes.
CreateValidationAgeFirst(weight, height, reach, age) ==
    IF ~(18 <= age /\ age <= 40) THEN ErrAge
    ELSE IF weight < 125 THEN ErrWeight
    ELSE IF height <= 0 THEN ErrHeight
    ELSE IF reach <= 0 THEN ErrReach
    ELSE NoError

\* The validation at the head of create_boxer: the first failing check.
CreateValidation(weight, height, reach, age) ==
    IF weight < 125 THEN ErrWeight
    ELSE IF height <= 0 THEN ErrHeight
    ELSE IF reach <= 0 THEN ErrReach
    ELSE IF ~(18 <= age /\ age <= 40) THEN ErrAge
    ELSE NoError

\* create_boxer, as a function of the table: the table after the call, the
\* exception and whether a connection was opened.  fail: the persistence
\* service raises sqlite3.Error.
create_boxer(db, id, name, weight, height, reach, age, fail) ==
    LET v == CreateValidation(weight, height, reach, age) IN
    IF v # NoError THEN [db |-> db, err |-> v, conn |-> FALSE]
    ELSE IF fail THEN [db |-> db, err |-> ErrDatabase, conn |-> TRUE]
    ELSE IF NameExists(db, name) THEN [db |-> db, err |-> ErrExists, conn |-> TRUE]
    ELSE [db |-> [i \in DOMAIN db \cup {id} |->
                     IF i = id THEN NewRow(name, weight, height, reach, age)
                     ELSE db[i]],
          err |-> NoError, conn |-> TRUE]

\* A delete_boxer whose DELETE has no WHERE clause.
delete_boxer_all(db, boxer_id, fail) ==
    IF fail THEN [db |-> db, err |-> ErrDatabase, conn |-> TRUE]
    ELSE IF ~IdExists(db, boxer_id) THEN [db |-> db, err |-> ErrNotFound, conn |-> TRUE]
    ELSE [db |-> <<>>, err |-> NoError, conn |-> TRUE]

\* delete_boxer
delete_boxer(db, boxer_id, fail) ==
    IF fail THEN [db |-> db, err |-> ErrDatabase, conn |-> TRUE]
    ELSE IF ~IdExists(db, boxer_id) THEN [db |-> db, err |-> ErrNotFound, conn |-> TRUE]
    ELSE [db |-> [i \in DOMAIN db \ {boxer_id} |-> db[i]],
          err |-> NoError, conn |-> TRUE]

\* get_boxer_by_id
get_boxer_by_id(db, boxer_id, fail) ==
    IF fail THEN [err |-> ErrDatabase, val |-> None]
    ELSE IF IdExists(db, boxer_id)
    THEN [err |-> NoError,
          val |-> Boxer(boxer_id, db[boxer_id].name, db[boxer_id].weight,
                        db[boxer_id].height, db[boxer_id].reach, db[boxer_id].age)]
    ELSE [err |-> ErrNotFound, val |-> None]

\* UPDATE statements of which the first forgets the fights column.
StatsUpdateWinsOnly(row, result) ==
    IF result = "win"
    THEN [row EXCEPT !.wins = row.wins + 1]
    ELSE [row EXCEPT !.fights = row.fights + 1]

\* The two UPDATE statements of update_boxer_stats.
StatsUpdate(row, result) ==
    IF result = "win"
    THEN [row EXCEPT !.fights = row.fights + 1, !.wins = row.wins + 1]
    ELSE [row EXCEPT !.fights = row.fights + 1]

\* An update_boxer_stats that takes every result but 'win' for a loss.
update_boxer_stats_unchecked(db, boxer_id, result, fail) ==
    IF fail THEN [db |-> db, err |-> ErrDatabase, conn |-> TRUE]
    ELSE IF ~IdExists(db, boxer_id) THEN [db |-> db, err |-> ErrNotFound, conn |-> TRUE]
    ELSE [db |-> [db EXCEPT ![boxer_id] = StatsUpdate(db[boxer_id], result)],
          err |-> NoError, conn |-> TRUE]

\* update_boxer_stats
update_boxer_stats(db, boxer_id, result, fail) ==
    IF result \notin {"win", "loss"} THEN [db |-> db, err |-> ErrResult, conn |-> FALSE]
    ELSE IF fail THEN [db |-> db, err |-> ErrDatabase, conn |-> TRUE]
    ELSE IF ~IdExists(db, boxer_id) THEN [db |-> db, err |-> ErrNotFound, conn |-> TRUE]
    ELSE [db |-> [db EXCEPT ![boxer_id] = StatsUpdate(db[boxer_id], result)],
          err |-> NoError, conn |-> TRUE]

\* WHERE fights > 0
OnLeaderboard(row) == row.fights > 0

\* An ORDER BY clause without DESC.
MayPrecedeAscending(a, b, sort_by) ==
    IF sort_by = "wins" THEN a.wins <= b.wins
    ELSE a.wins * b.fights <= b.wins * a.fights

\* ORDER BY wins DESC, ORDER BY win_pct DESC: row a may come before row b.
\* win_pct is wins * 1.0 / fights; two quotients compare as their cross
\* products do.
MayPrecede(a, b, sort_by) ==
    IF sort_by = "wins" THEN a.wins >= b.wins
    ELSE a.wins * b.fights >= b.wins * a.fights

\* The orders in which the query may return its rows: every arrangement of
\* the selected rows that the ORDER BY clause allows (rows of equal key come
\* in an order the query does not fix).
QueryOrders(db, sort_by) ==
    LET ids == {i \in DOMAIN db : OnLeaderboard(db[i])}
        n == Cardinality(ids)
    IN {o \in [1..n -> ids] :
          /\ \A j, k \in 1..n : o[j] = o[k] => j = k
          /\ \A j, k \in 1..n : j < k => MayPrecede(db[o[j]], db[o[k]], sort_by)}

\* round(x * 100, 1) of the quotient n / d, in tenths of a percent.
RoundedPct(n, d) == (2000 * n + d) \div (2 * d)

\* The dict get_leaderboard builds from a row.
LeaderboardEntry(id, row) ==
    [id |-> id, name |-> row.name, weight |-> row.weight, height |-> row.height,
     reach |-> row.reach, age |-> row.age,
     weight_class |-> get_weight_class(row.weight).val,
     fights |-> row.fights, wins |-> row.wins,
     win_pct |-> RoundedPct(row.wins, row.fights)]

\* get_leaderboard; order is the order in which the query returns the rows.
get_leaderboard(db, sort_by, order, fail) ==
    IF sort_by \notin {"win_pct", "wins"} THEN [err |-> ErrSortBy, val |-> <<>>, conn |-> FALSE]
    ELSE IF fail THEN [err |-> ErrDatabase, val |-> <<>>, conn |-> TRUE]
    ELSE [err |-> NoError,
          val |-> [k \in 1..Len(order) |-> LeaderboardEntry(order[k], db[order[k]])],
          conn |-> TRUE]

(***************************************************************************)
(* ring_model.py                                                           *)
(***************************************************************************)

\* The last three terms of get_fighting_skill, in hundredths: weight *
\* len(name) + reach / 10 + age_modifier, with reach held in tenths.
age_modifier(age) == IF age < 25 THEN -1 ELSE IF age > 35 THEN -2 ELSE 0

skill(boxer) ==
    100 * (boxer.weight * NameLen(boxer.name)) + boxer.reach + 100 * age_modifier(boxer.age)

\* get_fighting_skill: the log line reads boxer.boxer_id before the score is
\* computed; reading an attribute the object lacks raises AttributeError.
get_fighting_skill(boxer) ==
    IF ~HasAttr(boxer, "boxer_id") THEN [err |-> ErrAttribute, val |-> 0]
    ELSE [err |-> NoError, val |-> skill(boxer)]

Abs(x) == IF x < 0 THEN -x ELSE x

\* 1 / (1 + e ** -delta) for delta in hundredths, in thousandths and rounded
\* up to the next of the levels 0.5, 0.6, 0.7, 0.8, 0.9, 0.99, 0.999: a draw
\* on one of these levels compares with it as it compares with the quotient.
normalized_delta(delta) ==
    IF delta = 0 THEN 500
    ELSE IF delta < 41 THEN 501
    ELSE IF delta < 85 THEN 601
    ELSE IF delta < 139 THEN 701
    ELSE IF delta < 220 THEN 801
    ELSE IF delta < 460 THEN 901
    ELSE IF delta < 691 THEN 991
    ELSE 1000

\* A fight guard that lets a lone boxer through.
TooFewBoxersOffByOne(r) == Len(r) < 1

\* The guard at the head of fight.
TooFewBoxers(r) == Len(r) < 2

\* A capacity check that admits a third boxer.
RingFullOffByOne(r) == Len(r) > 2

\* The guard of enter_ring.
RingFull(r) == Len(r) >= 2

\* fight, as a function of the ring, the table and the random draw: the ring
\* and the table after the call, the exception and the return value.  fail1,
\* fail2: the persistence service raises sqlite3.Error in the winner's, the
\* loser's update.
fight(r, db, random_number, fail1, fail2) ==
    LET stay(err, d, conn) ==
            [ring |-> r, db |-> d, err |-> err, ret |-> None, conn |-> conn] IN
    IF TooFewBoxers(r) THEN stay(ErrTwoBoxers, db, FALSE)
    ELSE IF Len(r) # 2 THEN stay(ErrUnpack, db, FALSE)
    ELSE
      LET boxer_1 == r[1]
          boxer_2 == r[2]
          skill_1 == get_fighting_skill(boxer_1)
          skill_2 == get_fighting_skill(boxer_2)
      IN
      IF skill_1.err # NoError THEN stay(skill_1.err, db, FALSE)
      ELSE IF skill_2.err # NoError THEN stay(skill_2.err, db, FALSE)
      ELSE
        LET delta == Abs(skill_1.val - skill_2.val)
            first == random_number < normalized_delta(delta)
            winner == IF first THEN boxer_1 ELSE boxer_2
            loser == IF first THEN boxer_2 ELSE boxer_1
            won == update_boxer_stats(db, winner.id, "win", fail1)
        IN
        IF won.err # NoError THEN stay(won.err, won.db, TRUE)
        ELSE
          LET lost == update_boxer_stats(won.db, loser.id, "loss", fail2) IN
          IF lost.err # NoError THEN stay(lost.err, lost.db, TRUE)
          ELSE [ring |-> <<>>, db |-> lost.db, err |-> NoError, ret |-> winner.name,
                conn |-> TRUE]

\* A clear_ring that removes the last boxer alone.
clear_ring_pop(r) == IF r = <<>> THEN r ELSE SubSeq(r, 1, Len(r) - 1)

\* clear_ring
clear_ring(r) == IF r = <<>> THEN r ELSE <<>>

\* An enter_ring that makes no capacity check.
enter_ring_unbounded(r, boxer) ==
    IF ~IsBoxer(boxer) THEN [ring |-> r, err |-> ErrType]
    ELSE [ring |-> Append(r, boxer), err |-> NoError]

\* An enter_ring that puts the boxer in front of the others.
enter_ring_front(r, boxer) ==
    IF ~IsBoxer(boxer) THEN [ring |-> r, err |-> ErrType]
    ELSE IF RingFull(r) THEN [ring |-> r, err |-> ErrFull]
    ELSE [ring |-> <<boxer>> \o r, err |-> NoError]

\* An enter_ring that checks the capacity before the type.
enter_ring_capacity_first(r, boxer) ==
    IF RingFull(r) THEN [ring |-> r, err |-> ErrFull]
    ELSE IF ~IsBoxer(boxer) THEN [ring |-> r, err |-> ErrType]
    ELSE [ring |-> Append(r, boxer), err |-> NoError]

\* enter_ring
enter_ring(r, boxer) ==
    IF ~IsBoxer(boxer) THEN [ring |-> r, err |-> ErrType]
    ELSE IF RingFull(r) THEN [ring |-> r, err |-> ErrFull]
    ELSE [ring |-> Append(r, boxer), err |-> NoError]

\* get_boxers
get_boxers(r) == r

(***************************************************************************)
(* State machine.                                                          *)
(***************************************************************************)
Call(op, args, err, ret, conn) ==
    [op |-> op, args |-> args, err |-> err, ret |-> ret, conn |-> conn]

Fails == IF faulty THEN BOOLEAN ELSE {FALSE}

\* A thread that is in no enter_ring call.  overlapped records whether one of
\* its calls made its checks while another thread was between its checks and
\* its append.
NotInCall == [pc |-> "idle", boxer |-> None, overlapped |-> FALSE]

\* The id the table assigns to an inserted row: never one it assigned before.
NewId == nextId

Init ==
    /\ boxers = <<>>
    /\ nextId = 1
    /\ ring = <<>>
    /\ last = Call("init", <<>>, NoError, None, FALSE)
    /\ faulty = FALSE
    /\ callers = [t \in Threads |-> NotInCall]

\* create_boxer called with one of the given argument tuples.
CreateBoxerWith(inputs) ==
    \E name \in Names, a \in inputs, fail \in Fails :
        LET res == create_boxer(boxers, NewId, name, a[1], a[2], a[3], a[4], fail) IN
        /\ res.err = NoError => nextId <= MaxBoxers
        /\ boxers' = res.db
        /\ nextId' = IF res.err = NoError THEN nextId + 1 ELSE nextId
        /\ last' = Call("create_boxer", <<name, a[1], a[2], a[3], a[4]>>,
                        res.err, None, res.conn)
        /\ UNCHANGED <<ring, faulty, callers>>

CreateBoxer == CreateBoxerWith(SomeAttributes)

CreateBoxerAny == CreateBoxerWith(AllAttributes)

DeleteBoxer ==
    \E id \in Ids, fail \in Fails :
        LET res == delete_boxer(boxers, id, fail) IN
        /\ boxers' = res.db
        /\ last' = Call("delete_boxer", <<id>>, res.err, None, res.conn)
        /\ UNCHANGED <<nextId, ring, faulty, callers>>

GetBoxerById ==
    \E id \in Ids, fail \in Fails :
        LET res == get_boxer_by_id(boxers, id, fail) IN
        /\ last' = Call("get_boxer_by_id", <<id>>, res.err, res.val, TRUE)
        /\ UNCHANGED <<boxers, nextId, ring, faulty, callers>>

GetLeaderboard ==
    \E sort_by \in SortKeys, fail \in Fails :
        \E order \in IF sort_by \in {"win_pct", "wins"}
                     THEN QueryOrders(boxers, sort_by) ELSE {<<>>} :
            LET res == get_leaderboard(boxers, sort_by, order, fail) IN
            /\ last' = Call("get_leaderboard", <<sort_by>>, res.err, res.val, res.conn)
            /\ UNCHANGED <<boxers, nextId, ring, faulty, callers>>

\* The counters a call may still raise: none that has reached MaxFights.
CanCount(db, id) == id \in DOMAIN db => db[id].fights < MaxFights

UpdateBoxerStats ==
    \E id \in Ids, result \in Results, fail \in Fails :
        LET res == update_boxer_stats(boxers, id, result, fail) IN
        /\ CanCount(boxers, id)
        /\ boxers' = res.db
        /\ last' = Call("update_boxer_stats", <<id, result>>, res.err, None, res.conn)
        /\ UNCHANGED <<nextId, ring, faulty, callers>>

\* What a caller may hand to enter_ring: the Boxer of a stored row, as
\* get_boxer_by_id returns it, or a dict.
NotABoxer == asdict(Boxer(1, "Al", 125, 70, 710, 18))
Entrants == {get_boxer_by_id(boxers, id, FALSE).val : id \in DOMAIN boxers} \cup {NotABoxer}

EnterRing ==
    \E boxer \in Entrants :
        LET res == enter_ring(ring, boxer) IN
        /\ ring' = res.ring
        /\ last' = Call("enter_ring", <<boxer>>, res.err, None, FALSE)
        /\ UNCHANGED <<boxers, nextId, faulty, callers>>

ClearRing ==
    /\ ring' = clear_ring(ring)
    /\ last' = Call("clear_ring", <<>>, NoError, None, FALSE)
    /\ UNCHANGED <<boxers, nextId, faulty, callers>>

GetBoxers ==
    /\ last' = Call("get_boxers", <<>>, NoError, get_boxers(ring), FALSE)
    /\ UNCHANGED <<boxers, nextId, ring, faulty, callers>>

Fight ==
    \E random_number \in Draws, fail1 \in Fails, fail2 \in Fails :
        LET res == fight(ring, boxers, random_number, fail1, fail2) IN
        /\ \A i \in 1..Len(ring) : CanCount(boxers, ring[i].id)
        /\ ring' = res.ring
        /\ boxers' = res.db
        /\ last' = Call("fight", <<random_number>>, res.err, res.ret, res.conn)
        /\ UNCHANGED <<nextId, faulty, callers>>

Next ==
    \/ CreateBoxer
    \/ DeleteBoxer
    \/ GetBoxerById
    \/ GetLeaderboard
    \/ UpdateBoxerStats
    \/ EnterRing
    \/ ClearRing
    \/ GetBoxers
    \/ Fight

Spec == Init /\ [][Next]_vars

\* The registry alone, created with every combination of attributes.
RegistryNext ==
    \/ CreateBoxerAny
    \/ DeleteBoxer
    \/ GetBoxerById
    \/ GetLeaderboard
    \/ UpdateBoxerStats

RegistrySpec == Init /\ [][RegistryNext]_vars

\* The pure functions, each applied to a range of arguments.
GetWeightClass ==
    \E weight \in TriedWeights :
        LET res == get_weight_class(weight) IN
        /\ last' = Call("get_weight_class", <<weight>>, res.err, res.val, FALSE)
        /\ UNCHANGED <<boxers, nextId, ring, faulty, callers>>

GetFightingSkill ==
    \E boxer \in TriedBoxers :
        LET res == get_fighting_skill(boxer) IN
        /\ last' = Call("get_fighting_skill", <<boxer>>, res.err, res.val, FALSE)
        /\ UNCHANGED <<boxers, nextId, ring, faulty, callers>>

FunctionNext ==
    \/ GetWeightClass
    \/ GetFightingSkill

FunctionSpec == Init /\ [][FunctionNext]_vars

\* The threads that have passed the capacity check and not yet appended.
Appending == {t \in Threads : callers[t].pc = "append"}

\* enter_ring run by threads that share the RingModel, in the two steps a
\* thread switch can separate: the type and capacity checks, which raise or
\* let the call go on, and the append to the list as it then is.
EnterRingCheck(t) ==
    /\ callers[t].pc = "idle"
    /\ \E boxer \in Entrants :
          LET res == enter_ring(ring, boxer) IN
          IF res.err # NoError
          THEN /\ last' = Call("enter_ring", <<boxer>>, res.err, None, FALSE)
               /\ UNCHANGED <<boxers, nextId, ring, faulty, callers>>
          ELSE /\ callers' = [callers EXCEPT ![t] =
                                [pc |-> "append", boxer |-> boxer,
                                 overlapped |-> @.overlapped \/ Appending # {}]]
               /\ UNCHANGED <<boxers, nextId, ring, last, faulty>>

EnterRingAppend(t) ==
    /\ callers[t].pc = "append"
    /\ ring' = Append(ring, callers[t].boxer)
    /\ callers' = [callers EXCEPT ![t] = [NotInCall EXCEPT !.overlapped = callers[t].overlapped]]
    /\ last' = Call("enter_ring", <<callers[t].boxer>>, NoError, None, FALSE)
    /\ UNCHANGED <<boxers, nextId, faulty>>

SharedNext ==
    \/ CreateBoxer
    \/ ClearRing
    \/ \E t \in Threads : EnterRingCheck(t)
    \/ \E t \in Threads : EnterRingAppend(t)

SharedSpec == Init /\ [][SharedNext]_vars

\* The application with a persistence service that may fail any call.
FaultInit ==
    /\ boxers = <<>>
    /\ nextId = 1
    /\ ring = <<>>
    /\ last = Call("init", <<>>, NoError, None, FALSE)
    /\ faulty = TRUE
    /\ callers = [t \in Threads |-> NotInCall]

FaultSpec == FaultInit /\ [][Next]_vars

(***************************************************************************)
(* Properties.                                                             *)
(***************************************************************************)

\* C1: in every reachable state the ring holds between 0 and 2 boxers.
C1_RingHoldsAtMostTwo == Len(ring) >= 0 /\ Len(ring) <= 2

\* A full ring on which a further entry has just been attempted.
C1_Witness == Len(ring) = 2 /\ last.op = "enter_ring" /\ last.err = ErrFull

\* C2: on a ring holding two boxers, enter_ring with any Boxer, one already in
\* the ring included, raises "Ring is full" and leaves the ring as it was.
C2_FullRingRejects ==
    [][(Len(ring) = 2 /\ last'.op = "enter_ring" /\ IsBoxer(last'.args[1]))
        => (last'.err = ErrFull /\ ring' = ring)]_vars

\* A Boxer already in the full ring has been refused.
C2_Witness ==
    /\ Len(ring) = 2
    /\ last.op = "enter_ring"
    /\ last.err = ErrFull
    /\ last.args[1] = ring[1]
    /\ ring[1] # ring[2]

\* C3: fight on a ring of 0 or 1 boxers raises "There must be two boxers" and
\* changes neither the table's counters nor the ring.
C3_FightNeedsTwo ==
    [][(Len(ring) < 2 /\ last'.op = "fight")
        => (last'.err = ErrTwoBoxers /\ boxers' = boxers /\ ring' = ring)]_vars

\* A fight refused on a ring of one stored boxer.
C3_Witness ==
    /\ Len(ring) = 1
    /\ last.op = "fight"
    /\ last.err = ErrTwoBoxers
    /\ ring[1].id \in DOMAIN boxers
\* Both occupants of a full ring are rows of the table.
BothStored == Len(ring) = 2 /\ ring[1].id \in DOMAIN boxers /\ ring[2].id \in DOMAIN boxers

\* C4: fight on a ring holding a then b returns a's name when the draw is
\* below the threshold computed from the two skills, and b's name otherwise.
C4_FightReturnsWinner ==
    [][(BothStored /\ last'.op = "fight")
        => (/\ last'.err = NoError
            /\ last'.ret =
                 IF last'.args[1] < normalized_delta(Abs(skill(ring[1]) - skill(ring[2])))
                 THEN ring[1].name ELSE ring[2].name)]_vars

\* The rows of db with one win recorded for w and one loss for l.
Outcome(db, w, l) ==
    [i \in DOMAIN db |->
        IF i = w THEN [db[i] EXCEPT !.fights = @ + 1, !.wins = @ + 1]
        ELSE IF i = l THEN [db[i] EXCEPT !.fights = @ + 1]
        ELSE db[i]]

\* C5: a fight between two distinct stored boxers records one win for the
\* winner and one loss for the loser and changes no other row.
C5_FightRecordsOutcome ==
    [][(BothStored /\ ring[1].id # ring[2].id /\ last'.op = "fight")
        => (\/ boxers' = Outcome(boxers, ring[1].id, ring[2].id)
            \/ boxers' = Outcome(boxers, ring[2].id, ring[1].id))]_vars

\* C6: whenever fight is called on a ring holding two boxers, the ring is
\* empty when the call ends, by return or by exception.
C6_FightEmptiesRing ==
    [][(Len(ring) = 2 /\ last'.op = "fight") => ring' = <<>>]_vars
\* C7: update_boxer_stats(id, 'win') on an existing boxer adds 1 to its fights
\* and to its wins, update_boxer_stats(id, 'loss') adds 1 to its fights alone,
\* and wins <= fights holds for every boxer in every reachable state.
C7_StatsCount ==
    /\ [](\A i \in DOMAIN boxers : boxers[i].wins <= boxers[i].fights)
    /\ [][(/\ last'.op = "update_boxer_stats"
           /\ last'.args[1] \in DOMAIN boxers
           /\ last'.args[2] \in {"win", "loss"})
          => (/\ last'.err = NoError
              /\ DOMAIN boxers' = DOMAIN boxers
              /\ \A i \in DOMAIN boxers :
                   boxers'[i] =
                     IF i # last'.args[1] THEN boxers[i]
                     ELSE IF last'.args[2] = "win"
                     THEN [boxers[i] EXCEPT !.fights = @ + 1, !.wins = @ + 1]
                     ELSE [boxers[i] EXCEPT !.fights = @ + 1])]_vars

\* A boxer with one win and one loss, the loss just recorded.
C7_Witness ==
    /\ last.op = "update_boxer_stats"
    /\ last.err = NoError
    /\ last.args[2] = "loss"
    /\ last.args[1] \in DOMAIN boxers
    /\ boxers[last.args[1]].fights = 2
    /\ boxers[last.args[1]].wins = 1

C9_UniqueNames ==
    /\ [](\A i, j \in DOMAIN boxers : boxers[i].name = boxers[j].name => i = j)
    /\ [][(/\ last'.op = "create_boxer"
           /\ \E i \in DOMAIN boxers : boxers[i].name = last'.args[1]
           /\ last'.args[2] >= 125 /\ last'.args[3] > 0 /\ last'.args[4] > 0
           /\ last'.args[5] >= 18 /\ last'.args[5] <= 40)
          => (last'.err = ErrExists /\ boxers' = boxers /\ nextId' = nextId)]_vars

\* A second boxer of a stored name has been refused while two are stored.
C9_Witness ==
    /\ last.op = "create_boxer"
    /\ last.err = ErrExists
    /\ Cardinality(DOMAIN boxers) = 2

\* An id the table assigned whose row is gone.
Deleted(id) == id < nextId /\ id \notin DOMAIN boxers

\* C10: delete_boxer(id) raises not-found and changes nothing when no boxer
\* has the id; otherwise it removes that row and no other, and from then on
\* the id stays absent and get_boxer_by_id, delete_boxer and
\* update_boxer_stats on it fail, with not-found once their arguments are valid.
C10_DeleteIsPermanent ==
    /\ [][last'.op = "delete_boxer" =>
            LET id == last'.args[1] IN
            IF id \notin DOMAIN boxers
            THEN last'.err = ErrNotFound /\ boxers' = boxers
            ELSE /\ last'.err = NoError
                 /\ DOMAIN boxers' = DOMAIN boxers \ {id}
                 /\ \A i \in DOMAIN boxers' : boxers'[i] = boxers[i]]_vars
    /\ [][\A id \in Ids : Deleted(id) => Deleted(id)']_vars
    /\ [][(/\ last'.op \in {"get_boxer_by_id", "delete_boxer", "update_boxer_stats"}
           /\ Deleted(last'.args[1]))
          => (/\ boxers' = boxers
              /\ IF last'.op = "update_boxer_stats" /\ last'.args[2] \notin {"win", "loss"}
                 THEN last'.err = ErrResult
                 ELSE last'.err = ErrNotFound)]_vars

\* A stats update refused for a deleted boxer while another boxer, created
\* after the deletion, is stored.
C10_Witness ==
    /\ last.op = "update_boxer_stats"
    /\ last.args = <<1, "win">>
    /\ last.err = ErrNotFound
    /\ Deleted(1)
    /\ 2 \in DOMAIN boxers
\* C11: get_weight_class(w) fails if and only if w < 125; otherwise it
\* returns FEATHERWEIGHT for 125 <= w < 133, LIGHTWEIGHT for 133 <= w < 166,
\* MIDDLEWEIGHT for 166 <= w < 203 and HEAVYWEIGHT for w >= 203.
C11_WeightClasses ==
    last.op = "get_weight_class" =>
        LET w == last.args[1] IN
        /\ (last.err # NoError) <=> (w < 125)
        /\ w < 125 => last.err = ErrWeightClass
        /\ (125 <= w /\ w < 133) => last.ret = "FEATHERWEIGHT"
        /\ (133 <= w /\ w < 166) => last.ret = "LIGHTWEIGHT"
        /\ (166 <= w /\ w < 203) => last.ret = "MIDDLEWEIGHT"
        /\ w >= 203 => last.ret = "HEAVYWEIGHT"

\* The class of the lowest heavyweight has been asked for.
C11_Witness ==
    last.op = "get_weight_class" /\ last.args[1] = 203 /\ last.ret = "HEAVYWEIGHT"
\* C13: get_fighting_skill returns weight * len(name) + reach / 10 +
\* age_modifier, with age_modifier -1 below 25, -2 above 35 and 0 otherwise;
\* 2207.1 for weight 220, name 'Mike Tyson', reach 71.0 and age 30.  The
\* score is in hundredths and the reach in tenths.
C13_SkillFormula ==
    last.op = "get_fighting_skill" =>
        LET b == last.args[1]
            modifier == IF b.age < 25 THEN -1 ELSE IF b.age > 35 THEN -2 ELSE 0
        IN
        /\ last.err = NoError
        /\ last.ret = 100 * b.weight * NameLen(b.name) + b.reach + 100 * modifier
        /\ (b.weight = 220 /\ b.name = "Mike Tyson" /\ b.reach = 710 /\ b.age = 30)
             => last.ret = 220710
\* C12: get_leaderboard('wins') and get_leaderboard('win_pct') return exactly
\* the stored boxers with fights > 0, each once and with its counters, in
\* non-increasing order of wins, respectively of wins / fights; any other
\* sort key raises the ValueError.
C12_Leaderboard ==
    last.op = "get_leaderboard" =>
        IF last.args[1] \in {"wins", "win_pct"}
        THEN /\ last.err = NoError
             /\ {last.ret[k].id : k \in 1..Len(last.ret)}
                  = {i \in DOMAIN boxers : boxers[i].fights > 0}
             /\ \A j, k \in 1..Len(last.ret) : last.ret[j].id = last.ret[k].id => j = k
             /\ \A k \in 1..Len(last.ret) :
                  /\ last.ret[k].fights = boxers[last.ret[k].id].fights
                  /\ last.ret[k].wins = boxers[last.ret[k].id].wins
             /\ \A k \in 1..(Len(last.ret) - 1) :
                  IF last.args[1] = "wins"
                  THEN last.ret[k].wins >= last.ret[k + 1].wins
                  ELSE last.ret[k].wins * last.ret[k + 1].fights
                         >= last.ret[k + 1].wins * last.ret[k].fights
        ELSE last.err = ErrSortBy /\ last.ret = <<>>

\* A leaderboard by win_pct of two boxers with one win each, the one with
\* the fewer fights first.
C12_Witness ==
    /\ last.op = "get_leaderboard"
    /\ last.args[1] = "win_pct"
    /\ Len(last.ret) = 2
    /\ last.ret[1].wins = 1 /\ last.ret[1].fights = 1
    /\ last.ret[2].wins = 1 /\ last.ret[2].fights = 2
\* C14: enter_ring of a Boxer on a ring of fewer than two succeeds and puts
\* the boxer after the occupants, which keep their places; get_boxers
\* returns the occupants in that order and leaves the ring as it was.
C14_EnterAppends ==
    /\ [][(last'.op = "enter_ring" /\ IsBoxer(last'.args[1]) /\ Len(ring) < 2)
          => (/\ last'.err = NoError
              /\ Len(ring') = Len(ring) + 1
              /\ ring'[Len(ring')] = last'.args[1]
              /\ \A k \in 1..Len(ring) : ring'[k] = ring[k])]_vars
    /\ [][last'.op = "get_boxers"
          => (last'.err = NoError /\ last'.ret = ring /\ ring' = ring)]_vars

\* get_boxers has returned two different boxers, the first stored under the
\* lower id.
C14_Witness ==
    /\ last.op = "get_boxers"
    /\ Len(last.ret) = 2
    /\ last.ret = ring
    /\ last.ret[1].id = 2 /\ last.ret[2].id = 1

\* C15: clear_ring leaves the ring empty whatever it held, raises nothing
\* and changes no row of the table.
C15_ClearEmpties ==
    [][last'.op = "clear_ring"
        => (/\ ring' = <<>>
            /\ last'.err = NoError
            /\ boxers' = boxers
            /\ nextId' = nextId)]_vars

\* The ring has been cleared while a boxer with a recorded fight is stored.
C15_Witness ==
    /\ last.op = "clear_ring"
    /\ ring = <<>>
    /\ \E i \in DOMAIN boxers : boxers[i].fights > 0

\* C16: update_boxer_stats with a result other than 'win' and 'loss' raises
\* the invalid-result ValueError without opening the store, with an id no
\* boxer has it raises not-found, and in both cases no row changes.
C16_UpdateRejects ==
    [][last'.op = "update_boxer_stats" =>
        /\ last'.args[2] \notin {"win", "loss"}
             => (last'.err = ErrResult /\ ~last'.conn /\ boxers' = boxers)
        /\ (last'.args[2] \in {"win", "loss"} /\ last'.args[1] \notin DOMAIN boxers)
             => (last'.err = ErrNotFound /\ boxers' = boxers)]_vars

\* A 'draw' has been refused for a stored boxer.
C16_Witness ==
    /\ last.op = "update_boxer_stats"
    /\ last.args[2] = "draw"
    /\ last.args[1] \in DOMAIN boxers
    /\ last.err = ErrResult

\* C17: enter_ring with an object that is no Boxer raises TypeError and
\* leaves the ring as it was, whatever the ring holds.
C17_TypeChecked ==
    [][(last'.op = "enter_ring" /\ ~IsBoxer(last'.args[1]))
        => (last'.err = ErrType /\ ring' = ring)]_vars

\* A dict has been refused on a full ring.
C17_Witness ==
    /\ last.op = "enter_ring"
    /\ ~IsBoxer(last.args[1])
    /\ last.err = ErrType
    /\ Len(ring) = 2
\* C18: when fight() is called with the winner stored and the loser deleted
\* since it entered the ring, the winner's update succeeds and the loser's
\* fails: the not-found error reaches the caller and the winner's one more
\* fight and one more win stay in the table.
C18_PartialOutcomeStays ==
    [][(last'.op = "fight" /\ Len(ring) = 2) =>
        LET first == last'.args[1]
                       < normalized_delta(Abs(skill(ring[1]) - skill(ring[2])))
            winner == IF first THEN ring[1] ELSE ring[2]
            loser == IF first THEN ring[2] ELSE ring[1]
        IN
        (winner.id \in DOMAIN boxers /\ loser.id \notin DOMAIN boxers)
          => (/\ last'.err = ErrNotFound
              /\ boxers' = [boxers EXCEPT ![winner.id] =
                              [@ EXCEPT !.fights = @ + 1, !.wins = @ + 1]])]_vars
\* C19: the ring holds at most two boxers even when two threads share the
\* RingModel without a lock and their enter_ring calls interleave between the
\* capacity check and the append.
C19_BoundUnderInterleaving == Len(ring) \in 0..2

\* No enter_ring call has made its checks while another was between its
\* checks and its append.
NeverOverlapped == \A t \in Threads : ~callers[t].overlapped

\* C19, amended: as long as no enter_ring call has made its capacity check
\* while another was between its capacity check and its append, the boxers
\* in the ring and the calls about to append are at most two together, so
\* the ring holds at most two.
C19_BoundWithoutOverlap ==
    NeverOverlapped => (Len(ring) + Cardinality(Appending) <= 2 /\ Len(ring) <= 2)

\* The ring has been filled by calls that did not overlap, and a further
\* call has been refused.
C19_Witness ==
    /\ NeverOverlapped
    /\ Len(ring) = 2
    /\ last.op = "enter_ring"
    /\ last.err = ErrFull
====
